---------------------------- MODULE Spec2Model ----------------------------
(***************************************************************************)
(* Iterative Allocation Process (IAP) reference model,                     *)
(* src/src/harness/reference_models/iap/iap.py.                            *)
(*                                                                         *)
(* Units of the model.                                                     *)
(*   - logarithmic quantities (dB, dBm) are integers counting half dB, so  *)
(*     that the 2.5 dB of the ESC roll-off and the 1 dB EIRP step are      *)
(*     both whole numbers (Db(x) is x dB);                                 *)
(*   - linear quantities (mW) are integers counting LinUnit, the power     *)
(*     DbToLinear maps FloorDbm to 10; the mantissa of 10^(x/10) is kept   *)
(*     to two digits.  Python floats are modelled by these exact           *)
(*     integers, and a quotient a/b by the pair <<a, b>>;                  *)
(*   - frequencies are integers counting 2.5 MHz above 3550 MHz, so a      *)
(*     5 MHz channel is <<lo, lo + 2>> and its centre is lo + 1.           *)
(***************************************************************************)
EXTENDS Integers, Sequences, FiniteSets, TLC

\* ------------------------------------------------------------------ bounds
MaxGrants == 2
MaxChannels == 2
MaxSas == 2
MaxEntries == 2
\* the number of 1 dB reductions after which an EIRP is taken to have reached
\* the magnitude at which a float no longer changes when 1 is subtracted
\* (2^53 in the code); more than any grant with a vanishing contribution
\* needs
MaxReductions == 14

\* ------------------------------------------------- constants of iap.py
Q_PPA_DBM_PER_RBW == -80
Q_GWPZ_DBM_PER_RBW == -80
Q_FSS_CO_CHANNEL_DBM_PER_RBW == -129
Q_FSS_BLOCKING_DBM_PER_RBW == -60
Q_ESC_DBM_PER_RBW == -109
MG_PPA_DB == 1
MG_GWPZ_DB == 1
MG_FSS_CO_CHANNEL_DB == 1
MG_FSS_BLOCKING_DB == 1
MG_ESC_DB == 1

\* x dB in the model's half-dB units
Db(x) == 2 * x

\* ------------------------------------------------------------ sequences
RECURSIVE SumSeq(_)
SumSeq(s) == IF s = <<>> THEN 0 ELSE Head(s) + SumSeq(Tail(s))

Last(s) == s[Len(s)]

\* all sequences over S of length lo..hi
SeqsOf(S, lo, hi) == UNION {[1..n -> S] : n \in lo..hi}

Max(a, b) == IF a > b THEN a ELSE b

RECURSIVE Pow10(_)
Pow10(n) == IF n <= 0 THEN 1 ELSE 10 * Pow10(n - 1)


\* --------------------------------------------------------------------------
\* reference_models.interference (imported as interf; the module is not part
\* of the sources at hand, its behaviour is taken from the specification)
\* --------------------------------------------------------------------------
ProtectedEntityType == {"ESC", "GWPZ_AREA", "PPA_AREA", "FSS_CO_CHANNEL", "FSS_BLOCKING"}

\* two-digit mantissa of 10^(k/20), k = 0..19 (half-dB steps inside a decade)
Mantissa == <<10, 11, 13, 14, 16, 18, 20, 22, 25, 28,
              32, 35, 40, 45, 50, 56, 63, 71, 79, 89>>

\* the level DbToLinear maps to 10 units; anything below it is 0
FloorDbm == Db(-130)
TopDbm == Db(-40)

\* interf.dbToLinear: 10^(x/10), x in half dB
DbToLinear(x) ==
  LET d == x - FloorDbm
  IN  IF d < 0 THEN 0 ELSE Mantissa[(d % 20) + 1] * Pow10(d \div 20)

\* interf.linearToDb: 10*log10(v), the level whose linear value is v
LinearToDb(v) ==
  CHOOSE x \in FloorDbm..TopDbm : DbToLinear(x) <= v /\ v < DbToLinear(x + 1)

\* 10*log10(IAPBW_HZ / MHZ) = 10*log10(5), to the half dB
IapBwPerMhzDb == Db(7)
\* 10*log10(IAPBW_HZ / GWPZ_RBW_HZ) = 10*log10(IAPBW_HZ / PPA_RBW_HZ) = 10*log10(1/2)
IapBwPerAreaRbwDb == Db(-3)

\* frequencies, in 2.5 MHz steps above 3550 MHz
CBRS_LOW_FREQ_HZ == 0
ESC_ROLLOFF_FREQ_HZ == 40
ESC_CH21_CF_HZ == 41
CBRS_HIGH_FREQ_HZ == 60
FSS_TTC_LOW_FREQ_HZ == 60
FSS_TTC_HIGH_FREQ_HZ == 260

\* interf.getProtectedChannels: the 5 MHz segments of [low, high)
RECURSIVE getProtectedChannels(_, _)
getProtectedChannels(low, high) ==
  IF low + 2 > high THEN <<>>
  ELSE <<<<low, low + 2>>>> \o getProtectedChannels(low + 2, high)

\* interf.computeInterference: the dB contribution of a grant transmitting at
\* eirp; everything but the EIRP (path loss, antenna gains, which depend on
\* fss_info, esc_antenna_info and region_type) is the grant's loss.  floor is
\* the level the model's answer does not go below however low the EIRP: below
\* FloorDbm for a contribution that vanishes with the EIRP
computeInterference(grant, eirp) == Max(eirp - grant.loss, grant.floor)

\* the contribution of the grant falls below any positive value
Vanishing(grant) == grant.floor < FloorDbm

\* interf.findGrantsInsideNeighborhood
findGrantsInsideNeighborhood(grant_objects, protection_point) ==
  SelectSeq(grant_objects, LAMBDA g : protection_point \in g.near)

\* interf.findOverlappingGrants: grants whose frequency range overlaps the
\* constraint's
findOverlappingGrants(grants, channel) ==
  SelectSeq(grants, LAMBDA g : g.low_frequency < channel[2]
                               /\ g.high_frequency > channel[1])

\* interf.AggregateInterferenceOutputFormat: {latitude: {longitude: [values]}},
\* one object for the main process and the pool workers; a call of
\* SetAggregateInterferenceInfo is one step
EmptyStore == <<>>

SetAggregateInterferenceInfo(store, latitude, longitude, interference) ==
  IF latitude \notin DOMAIN store
    THEN store @@ (latitude :> (longitude :> <<interference>>))
  ELSE IF longitude \notin DOMAIN store[latitude]
    THEN [store EXCEPT ![latitude] = @ @@ (longitude :> <<interference>>)]
  ELSE [store EXCEPT ![latitude][longitude] = Append(@, interference)]

\* the key order of a dictionary after an insertion: a key it holds keeps its
\* place, a new key may come anywhere (the order is the dictionary's own
\* business, and stays as it is while the dictionary is not modified)
ItemsAfterInsert(items, k) ==
  IF \E i \in DOMAIN items : items[i] = k THEN {items}
  ELSE {SubSeq(items, 1, n) \o <<k>> \o SubSeq(items, n + 1, Len(items)) :
          n \in 0..Len(items)}

\* the (latitude, longitude) keys of a store
Keys(store) == UNION {{<<la, lo>> : lo \in DOMAIN store[la]} : la \in DOMAIN store}

\* --------------------------------------------------------------------------
\* iapPointConstraint (iap.py 80-204): the frame of one call.  A frame is a
\* record of the call's arguments and locals; pc is the position in the code:
\*   "entry"   the call has been made, nothing executed yet
\*   "channel" at the head of `for channel in channels`, ch the next index
\*   "while"   at the test of `while (num_unsatisfied_grants > 0)`
\*   "for"     inside the sweep, index the next position of enumerate(...)
\*   "write"   between the two store writes of lines 199 and 202
\*   "return"  the call has returned
\* quota_initial and sat_count are history fields: the quota the loop of the
\* current channel started from, and how often each grant was declared
\* satisfied in it.
\* --------------------------------------------------------------------------
NoFrame == [pc |-> "none"]

\* a quotient num/den of two floats is kept as the pair <<num, den>>
Quotient(num, den) == <<num, den>>

\* v < q for a quotient q with a non-zero denominator
LessThan(v, q) == IF q[2] > 0 THEN v * q[2] < q[1] ELSE v * q[2] > q[1]

\* the frame at the call (lines 80-82)
CallFrame(protection_point, channels, low_freq, high_freq, grant_objects, threshold, protection_ent_type) ==
  [pc |-> "entry",
   protection_point |-> protection_point,
   channels |-> channels,
   low_freq |-> low_freq,
   high_freq |-> high_freq,
   grant_objects |-> grant_objects,
   threshold |-> threshold,
   protection_ent_type |-> protection_ent_type,
   grants_inside |-> <<>>,
   ch |-> 1,
   channel |-> <<0, 0>>,
   interference_quota |-> 0,
   quota_initial |-> 0,
   neighborhood_grants |-> <<>>,
   num_unsatisfied_grants |-> 0,
   fair_share |-> Quotient(0, 1),
   grants_eirp |-> <<>>,
   grant_initialize_flag |-> <<>>,
   aggr_interference |-> 0,
   a_sas_p_interference |-> 0,
   index |-> 1,
   sat_count |-> <<>>,
   wrote |-> FALSE]

\* InterferenceQuota without the 2.5 dB of line 124
InterferenceQuotaByDistance(protection_ent_type, threshold, channel) ==
  IF protection_ent_type = "ESC" /\ channel[1] >= ESC_ROLLOFF_FREQ_HZ
    THEN LET center_freq == (channel[1] + channel[2]) \div 2
         IN  DbToLinear(LinearToDb(threshold) - 5 * (center_freq - ESC_CH21_CF_HZ))
    ELSE threshold

\* lines 117-134: the interference quota of a channel
InterferenceQuota(protection_ent_type, threshold, channel) ==
  IF protection_ent_type = "ESC" /\ channel[1] >= ESC_ROLLOFF_FREQ_HZ
    THEN LET center_freq == (channel[1] + channel[2]) \div 2
         IN  DbToLinear(LinearToDb(threshold)
                        - (5 + 5 * (center_freq - ESC_CH21_CF_HZ)))
    ELSE threshold

\* lines 128-139: the frequency range of the constraint
ConstraintChannel(protection_ent_type, channel, low_freq, high_freq) ==
  IF protection_ent_type = "FSS_BLOCKING" THEN <<low_freq, high_freq>> ELSE channel

\* lines 110-114: the neighbourhood filter
Enter(f) ==
  LET grants_inside == findGrantsInsideNeighborhood(f.grant_objects, f.protection_point)
  IN  [f EXCEPT !.grants_inside = grants_inside,
                !.pc = IF Len(grants_inside) > 0 THEN "channel" ELSE "return"]

\* the grants of the channel f.ch (lines 136-145)
ChannelGrants(f) ==
  findOverlappingGrants(f.grants_inside,
    ConstraintChannel(f.protection_ent_type, f.channels[f.ch], f.low_freq, f.high_freq))

\* StartChannel that goes on with the quota the channel before left over
StartChannelCarriesQuota(f) ==
  LET channel == ConstraintChannel(f.protection_ent_type, f.channels[f.ch],
                                   f.low_freq, f.high_freq)
      interference_quota ==
        IF f.wrote
          THEN f.interference_quota
          ELSE InterferenceQuota(f.protection_ent_type, f.threshold, f.channels[f.ch])
      neighborhood_grants == findOverlappingGrants(f.grants_inside, channel)
      num_unsatisfied_grants == Len(neighborhood_grants)
  IN  [f EXCEPT !.pc = "while",
                !.channel = channel,
                !.interference_quota = interference_quota,
                !.quota_initial = interference_quota,
                !.neighborhood_grants = neighborhood_grants,
                !.num_unsatisfied_grants = num_unsatisfied_grants,
                !.fair_share = Quotient(interference_quota, num_unsatisfied_grants),
                !.aggr_interference = 0,
                !.a_sas_p_interference = 0,
                !.grant_initialize_flag = [i \in 1..num_unsatisfied_grants |-> FALSE],
                !.grants_eirp = [i \in 1..num_unsatisfied_grants |->
                                   neighborhood_grants[i].max_eirp],
                !.sat_count = [i \in 1..num_unsatisfied_grants |-> 0],
                !.wrote = FALSE]

\* lines 116-164: the head of the channel loop up to the while loop, for a
\* channel with overlapping grants
StartChannel(f) ==
  LET channel == ConstraintChannel(f.protection_ent_type, f.channels[f.ch],
                                   f.low_freq, f.high_freq)
      interference_quota ==
        InterferenceQuota(f.protection_ent_type, f.threshold, f.channels[f.ch])
      neighborhood_grants == findOverlappingGrants(f.grants_inside, channel)
      num_unsatisfied_grants == Len(neighborhood_grants)
  IN  [f EXCEPT !.pc = "while",
                !.channel = channel,
                !.interference_quota = interference_quota,
                !.quota_initial = interference_quota,
                !.neighborhood_grants = neighborhood_grants,
                !.num_unsatisfied_grants = num_unsatisfied_grants,
                !.fair_share = Quotient(interference_quota, num_unsatisfied_grants),
                !.aggr_interference = 0,
                !.a_sas_p_interference = 0,
                !.grant_initialize_flag = [i \in 1..num_unsatisfied_grants |-> FALSE],
                !.grants_eirp = [i \in 1..num_unsatisfied_grants |->
                                   neighborhood_grants[i].max_eirp],
                !.sat_count = [i \in 1..num_unsatisfied_grants |-> 0],
                !.wrote = FALSE]

\* lines 147-148: a channel no grant overlaps
SkipChannel(f) == [f EXCEPT !.ch = @ + 1]

\* line 170: the linear contribution of grant index at its current EIRP
Interference(f, index) ==
  DbToLinear(computeInterference(f.neighborhood_grants[index], f.grants_eirp[index]))

\* Satisfied without line 177: the quota is left as it is
SatisfiedKeepsQuota(f, interference) ==
  LET num_unsatisfied_grants == f.num_unsatisfied_grants - 1
  IN  [f EXCEPT !.num_unsatisfied_grants = num_unsatisfied_grants,
                !.fair_share = IF num_unsatisfied_grants # 0
                                 THEN Quotient(f.interference_quota, num_unsatisfied_grants)
                                 ELSE @,
                !.aggr_interference = @ + interference,
                !.a_sas_p_interference =
                   IF f.neighborhood_grants[f.index].is_managed_grant
                     THEN @ + interference ELSE @,
                !.sat_count[f.index] = @ + 1]

\* lines 176-194: the grant at f.index fits its fair share
Satisfied(f, interference) ==
  LET interference_quota == f.interference_quota - interference
      num_unsatisfied_grants == f.num_unsatisfied_grants - 1
  IN  [f EXCEPT !.interference_quota = interference_quota,
                !.num_unsatisfied_grants = num_unsatisfied_grants,
                !.fair_share = IF num_unsatisfied_grants # 0
                                 THEN Quotient(interference_quota, num_unsatisfied_grants)
                                 ELSE @,
                !.aggr_interference = @ + interference,
                !.a_sas_p_interference =
                   IF f.neighborhood_grants[f.index].is_managed_grant
                     THEN @ + interference ELSE @,
                !.sat_count[f.index] = @ + 1]

\* Reduced without line 197: the EIRP is left as it is
ReducedKeepsEirp(f) == f

\* lines 196-197: the grant at f.index does not fit, its EIRP drops by 1 dB
Reduced(f) ==
  [f EXCEPT !.grants_eirp[f.index] =
     IF f.neighborhood_grants[f.index].max_eirp - @ >= Db(MaxReductions)
       THEN @
       ELSE @ - Db(1)]

\* lines 167-197: one iteration of `for index, grant in enumerate(...)`
Probe(f) ==
  IF f.grant_initialize_flag[f.index] = FALSE
    THEN LET interference == Interference(f, f.index)
         IN  IF LessThan(interference, f.fair_share)
               THEN Satisfied(f, interference)
               ELSE Reduced(f)
    ELSE f

\* the step to the next iteration of the sweep, or back to the while test
NextIndex(f) ==
  IF f.index < Len(f.neighborhood_grants)
    THEN [f EXCEPT !.index = @ + 1]
    ELSE [f EXCEPT !.pc = "while"]

\* the step to the next channel after lines 199-203
Written(f) == [f EXCEPT !.pc = "channel", !.ch = @ + 1, !.wrote = TRUE]

\* lines 110-204: the next position of a call that has not returned
Step(f) ==
  CASE f.pc = "entry" -> Enter(f)
    [] f.pc = "channel" ->
         IF f.ch > Len(f.channels) THEN [f EXCEPT !.pc = "return"]
         ELSE IF ChannelGrants(f) = <<>> THEN SkipChannel(f)
         ELSE StartChannel(f)
    [] f.pc = "while" ->
         IF f.num_unsatisfied_grants > 0
           THEN [f EXCEPT !.pc = "for", !.index = 1]
           ELSE [f EXCEPT !.pc = "write"]
    [] f.pc = "for" -> NextIndex(Probe(f))
    [] f.pc = "write" -> Written(f)

\* lines 80-204: an inline call run from frame f to its return; the result is
\* the sequence of the pairs <<a_sas_p_interference, aggr_interference>> it
\* hands to SetAggregateInterferenceInfo, acc being those before f
RECURSIVE InlineTotals(_, _)
InlineTotals(f, acc) ==
  IF f.pc = "return" THEN acc
  ELSE InlineTotals(Step(f),
         IF f.pc = "write"
           THEN Append(acc, <<f.a_sas_p_interference, f.aggr_interference>>)
           ELSE acc)


\* --------------------------------------------------------------------------
\* state
\* --------------------------------------------------------------------------
\* multiprocessing.cpu_count() of the machine
CpuCount == 2

Main == 0
Workers == 1..CpuCount
Procs == {Main} \cup Workers

VARIABLES
  asas_interference,       \* line 69: the local-total store
  aggregate_interference,  \* line 77: the global-total store
  a_p_items,               \* the order in which the dictionaries of the
                           \* global-total store hand out its keys
  frame,                   \* per process, its iapPointConstraint call
  drv,                     \* the entity driver the main process is in
  pool,                    \* the multiprocessing.Pool of the driver
  result,                  \* what the last driver returned
  own,                     \* history: what iapPointConstraint has written to
                           \* the stores since the driver began (asas, aggr),
                           \* and for which channel of its list (ch)
  testcase                 \* the run of a test of SasToSasSecurityTestcase

vars ==
  <<asas_interference, aggregate_interference, a_p_items, frame, drv, pool, result, own,
    testcase>>

\* nothing written
NothingWritten == [asas |-> EmptyStore, aggr |-> EmptyStore, ch |-> EmptyStore]

\* the driver frame when no driver is running; "direct" when the main
\* process calls iapPointConstraint or calculateApIapRef itself
IdleFrame ==
  [pc |-> "idle", name |-> "none", iap_threshold |-> 0, iap_margin |-> 0,
   applies |-> FALSE, called_iap |-> FALSE, quota |-> 0, channels |-> <<>>,
   task |-> <<>>, combined |-> FALSE, q_p |-> 0, num_sas |-> 0,
   inputs |-> <<>>, prev |-> <<>>]

DirectFrame == [IdleFrame EXCEPT !.pc = "direct"]

NoPool == [state |-> "none", procs |-> {}, tasks |-> <<>>]

\* no exception
NoException == [type |-> "none", is_status |-> FALSE, status |-> 0, message |-> ""]

\* no test of WINNF_FT_S_SSS_testcase.py is running
NoTestcase ==
  [name |-> "none", pc |-> "none", handshake |-> "not run", operation |-> "not run",
   e |-> NoException, verdict |-> "none"]

\* --------------------------------------------------------------------------
\* iapPointConstraint, one action per step of process p
\* --------------------------------------------------------------------------
iapEnter(p) ==
  /\ frame[p].pc = "entry"
  /\ frame' = [frame EXCEPT ![p] = Enter(@)]
  /\ UNCHANGED <<asas_interference, aggregate_interference, a_p_items, drv, pool, result, own, testcase>>

\* iapSkipChannel that records a zero total for the channel
iapSkipChannelWritesZero(p) ==
  /\ frame[p].pc = "channel"
  /\ frame[p].ch <= Len(frame[p].channels)
  /\ ChannelGrants(frame[p]) = <<>>
  /\ asas_interference' =
       SetAggregateInterferenceInfo(asas_interference, frame[p].protection_point[1],
         frame[p].protection_point[2], 0)
  /\ aggregate_interference' =
       SetAggregateInterferenceInfo(aggregate_interference, frame[p].protection_point[1],
         frame[p].protection_point[2], 0)
  /\ own' = [asas |-> asas_interference', aggr |-> aggregate_interference',
             ch |-> SetAggregateInterferenceInfo(own.ch, frame[p].protection_point[1],
                      frame[p].protection_point[2], frame[p].ch)]
  /\ a_p_items' \in ItemsAfterInsert(a_p_items, frame[p].protection_point)
  /\ frame' = [frame EXCEPT ![p] = SkipChannel(@)]
  /\ UNCHANGED <<drv, pool, result, testcase>>

\* lines 143-148: no grant overlaps the channel
iapSkipChannel(p) ==
  /\ frame[p].pc = "channel"
  /\ frame[p].ch <= Len(frame[p].channels)
  /\ ChannelGrants(frame[p]) = <<>>
  /\ frame' = [frame EXCEPT ![p] = SkipChannel(@)]
  /\ UNCHANGED <<asas_interference, aggregate_interference, a_p_items, drv, pool, result, own, testcase>>

iapStartChannel(p) ==
  /\ frame[p].pc = "channel"
  /\ frame[p].ch <= Len(frame[p].channels)
  /\ ChannelGrants(frame[p]) # <<>>
  /\ frame' = [frame EXCEPT ![p] = StartChannel(@)]
  /\ UNCHANGED <<asas_interference, aggregate_interference, a_p_items, drv, pool, result, own, testcase>>

\* iapSweep whose sweep leaves out the first grant of the list
iapSweepFromSecond(p) ==
  /\ frame[p].pc = "while"
  /\ frame[p].num_unsatisfied_grants > 0
  /\ frame' = [frame EXCEPT ![p] =
       [@ EXCEPT !.pc = "for",
                 !.index = IF Len(frame[p].neighborhood_grants) > 1 THEN 2 ELSE 1]]
  /\ UNCHANGED <<asas_interference, aggregate_interference, a_p_items, drv, pool, result, own, testcase>>

\* line 167: a sweep begins
iapSweep(p) ==
  /\ frame[p].pc = "while"
  /\ frame[p].num_unsatisfied_grants > 0
  /\ frame' = [frame EXCEPT ![p] = [@ EXCEPT !.pc = "for", !.index = 1]]
  /\ UNCHANGED <<asas_interference, aggregate_interference, a_p_items, drv, pool, result, own, testcase>>

iapProbe(p) ==
  /\ frame[p].pc = "for"
  /\ frame' = [frame EXCEPT ![p] = NextIndex(Probe(@))]
  /\ UNCHANGED <<asas_interference, aggregate_interference, a_p_items, drv, pool, result, own, testcase>>

\* iapWriteAsas that records a local total only when there is one
iapWriteAsasIfManaged(p) ==
  /\ frame[p].pc = "while"
  /\ ~(frame[p].num_unsatisfied_grants > 0)
  /\ asas_interference' =
       IF frame[p].a_sas_p_interference > 0
         THEN SetAggregateInterferenceInfo(asas_interference,
                frame[p].protection_point[1], frame[p].protection_point[2],
                frame[p].a_sas_p_interference)
         ELSE asas_interference
  /\ own' = [own EXCEPT !.asas = asas_interference']
  /\ frame' = [frame EXCEPT ![p] = [@ EXCEPT !.pc = "write"]]
  /\ UNCHANGED <<aggregate_interference, a_p_items, drv, pool, result, testcase>>

\* lines 199-200, at the exit of the while loop
iapWriteAsas(p) ==
  /\ frame[p].pc = "while"
  /\ ~(frame[p].num_unsatisfied_grants > 0)
  /\ asas_interference' =
       SetAggregateInterferenceInfo(asas_interference, frame[p].protection_point[1],
         frame[p].protection_point[2], frame[p].a_sas_p_interference)
  /\ own' = [own EXCEPT !.asas =
       SetAggregateInterferenceInfo(@, frame[p].protection_point[1],
         frame[p].protection_point[2], frame[p].a_sas_p_interference)]
  /\ frame' = [frame EXCEPT ![p] = [@ EXCEPT !.pc = "write"]]
  /\ UNCHANGED <<aggregate_interference, a_p_items, drv, pool, result, testcase>>

\* iapWriteAggregate with a store that is not shared: what a worker process
\* writes stays in its own memory
iapWriteAggregatePrivate(p) ==
  /\ frame[p].pc = "write"
  /\ aggregate_interference' =
       IF p = Main
         THEN SetAggregateInterferenceInfo(aggregate_interference,
                frame[p].protection_point[1], frame[p].protection_point[2],
                frame[p].aggr_interference)
         ELSE aggregate_interference
  /\ own' = own
  /\ a_p_items' \in IF p = Main
                      THEN ItemsAfterInsert(a_p_items, frame[p].protection_point)
                      ELSE {a_p_items}
  /\ frame' = [frame EXCEPT ![p] = Written(@)]
  /\ UNCHANGED <<asas_interference, drv, pool, result, testcase>>

\* lines 202-203, and the step to the next channel
iapWriteAggregate(p) ==
  /\ frame[p].pc = "write"
  /\ aggregate_interference' =
       SetAggregateInterferenceInfo(aggregate_interference, frame[p].protection_point[1],
         frame[p].protection_point[2], frame[p].aggr_interference)
  /\ own' = [own EXCEPT
       !.aggr = SetAggregateInterferenceInfo(@, frame[p].protection_point[1],
                  frame[p].protection_point[2], frame[p].aggr_interference),
       !.ch = SetAggregateInterferenceInfo(@, frame[p].protection_point[1],
                frame[p].protection_point[2], frame[p].ch)]
  /\ a_p_items' \in ItemsAfterInsert(a_p_items, frame[p].protection_point)
  /\ frame' = [frame EXCEPT ![p] = Written(@)]
  /\ UNCHANGED <<asas_interference, drv, pool, result, testcase>>

iapReturn(p) ==
  /\ frame[p].pc = "channel"
  /\ frame[p].ch > Len(frame[p].channels)
  /\ frame' = [frame EXCEPT ![p] = [@ EXCEPT !.pc = "return"]]
  /\ UNCHANGED <<asas_interference, aggregate_interference, a_p_items, drv, pool, result, own, testcase>>

iapPointConstraint(p) ==
  \/ iapEnter(p)
  \/ iapSkipChannel(p)
  \/ iapStartChannel(p)
  \/ iapSweep(p)
  \/ iapProbe(p)
  \/ iapWriteAsas(p)
  \/ iapWriteAggregate(p)
  \/ iapReturn(p)

\* --------------------------------------------------------------------------
\* SpecAlloc: one direct call iapPointConstraint(...) by the main process,
\* for every argument of the bounded sets below
\* --------------------------------------------------------------------------
Points == {<<1, 1>>, <<1, 2>>, <<2, 1>>}

\* the threshold (mW) of the direct calls: -110 dBm
AllocThreshold == DbToLinear(Db(-110))

\* half of AllocThreshold: -113 dBm
AllocHalfThreshold == DbToLinear(Db(-113))

\* grants whose contribution at max EIRP is off (half dB) above AllocThreshold
GrantAt(level, is_managed, low, high, near) ==
  [max_eirp |-> Db(30),
   loss |-> Db(30) - level,
   is_managed_grant |-> is_managed,
   low_frequency |-> low,
   high_frequency |-> high,
   near |-> near,
   floor |-> FloorDbm - 1]

\* a grant whose contribution, 1 dB above AllocThreshold at max EIRP, is never
\* reported below AllocThreshold
StuckGrant ==
  [GrantAt(Db(-110) + Db(1), TRUE, 38, 42, Points) EXCEPT !.floor = Db(-110)]

AllocGrants ==
  {GrantAt(Db(-110) + off, m, 38, 42, Points) :
     off \in {Db(-4), Db(-2), Db(1)}, m \in BOOLEAN}
  \cup {GrantAt(Db(-110) + Db(-4), TRUE, 40, 42, Points),
        GrantAt(Db(-110) + Db(-4), TRUE, 38, 42, {}),
        StuckGrant}

\* the grant lists of the direct calls: every list up to MaxGrants, a list
\* of three grants 6 dB, 4 dB and 6 dB below AllocThreshold, and a grant in
\* 3660-3665 MHz
AllocGrantLists ==
  SeqsOf(AllocGrants, 0, MaxGrants)
  \cup {<<GrantAt(Db(-110) + Db(-6), TRUE, 38, 42, Points),
          GrantAt(Db(-110) + Db(-4), FALSE, 38, 42, Points),
          GrantAt(Db(-110) + Db(-6), TRUE, 38, 42, Points)>>,
        <<GrantAt(Db(-110) + Db(-4), TRUE, 44, 46, Points)>>}

\* the channel lists of the direct calls: the channels from 3645 MHz on, and
\* the channel 3660-3665 MHz by itself
AllocChannels ==
  {getProtectedChannels(38, 38 + 2 * n) : n \in 1..MaxChannels} \cup {<<<<44, 46>>>>}

\* the grant lists and thresholds of the direct calls: every list with
\* AllocThreshold, the lists of at most one grant also with half of it
AllocCalls ==
  {<<grant_objects, AllocThreshold>> : grant_objects \in AllocGrantLists}
  \cup {<<grant_objects, AllocHalfThreshold>> : grant_objects \in SeqsOf(AllocGrants, 0, 1)}

InitAlloc ==
  /\ asas_interference = EmptyStore
  /\ aggregate_interference = EmptyStore
  /\ a_p_items = <<>>
  /\ \E protection_ent_type \in ProtectedEntityType,
        channels \in AllocChannels,
        call \in AllocCalls :
       frame = [p \in Procs |->
                  IF p = Main
                    THEN CallFrame(<<1, 1>>, channels, 38, 42, call[1],
                                   call[2], protection_ent_type)
                    ELSE NoFrame]
  /\ drv = DirectFrame
  /\ pool = NoPool
  /\ result = <<>>
  /\ own = NothingWritten
  /\ testcase = NoTestcase

NextAlloc == iapPointConstraint(Main)

SpecAlloc == InitAlloc /\ [][NextAlloc]_vars


\* --------------------------------------------------------------------------
\* the convergence loop (SpecAlloc)
\* --------------------------------------------------------------------------
\* process p is inside the convergence loop of a channel
InLoop(p) == frame[p].pc \in {"while", "for"}

\* the convergence loop of process p is exiting
LoopExit(p) == frame[p].pc = "while" /\ ~(frame[p].num_unsatisfied_grants > 0)

\* the last value written for the point of process p's call
LastWritten(store, p) ==
  Last(store[frame[p].protection_point[1]][frame[p].protection_point[2]])

\* the grants of the current channel, by position
GrantIndexes(p) == 1..Len(frame[p].neighborhood_grants)

\* the sum over the grants, each counted once, of its contribution at its
\* current EIRP
SumOfContributions(p) ==
  SumSeq([i \in GrantIndexes(p) |-> Interference(frame[p], i)])

\* C1: the all-authorities total written for a point and channel never
\* exceeds the interference quota the channel's loop started from.
C1_TotalWithinQuota ==
  \A p \in Procs :
    (frame[p].pc = "channel" /\ frame[p].wrote)
      => LastWritten(aggregate_interference, p) <= frame[p].quota_initial

\* C2: conservation.  At the exit of the loop the contributions of the
\* grants at their final EIRP, each counted once, add up to
\* quota_initial - quota_remaining and to the global total, and the
\* remaining quota is never negative inside the loop.
C2_Conservation ==
  \A p \in Procs :
    /\ InLoop(p) => frame[p].interference_quota >= 0
    /\ LoopExit(p) =>
         /\ SumOfContributions(p) = frame[p].quota_initial - frame[p].interference_quota
         /\ SumOfContributions(p) = frame[p].aggr_interference

\* C3: num_unsatisfied_grants counts the grants not yet satisfied, no grant
\* is declared satisfied twice, and at the exit every grant has been
\* satisfied exactly once.
C3_SatisfiedExactlyOnce ==
  \A p \in Procs :
    /\ InLoop(p) =>
         /\ frame[p].num_unsatisfied_grants =
              Cardinality({i \in GrantIndexes(p) : frame[p].sat_count[i] = 0})
         /\ \A i \in GrantIndexes(p) : frame[p].sat_count[i] <= 1
    /\ LoopExit(p) => \A i \in GrantIndexes(p) : frame[p].sat_count[i] = 1

\* the probe process p is about to make declares its grant satisfied
AboutToSatisfy(p) ==
  /\ frame[p].pc = "for"
  /\ frame[p].grant_initialize_flag[frame[p].index] = FALSE
  /\ LessThan(Interference(frame[p], frame[p].index), frame[p].fair_share)

\* C4: fairness.  Whenever a grant is declared satisfied, the fair share it
\* was compared with is remaining_quota / (number of unsatisfied grants) at
\* the moment of the probe.
C4_FairShareInForce ==
  \A p \in Procs :
    AboutToSatisfy(p) =>
      /\ frame[p].num_unsatisfied_grants > 0
      /\ frame[p].fair_share[1] * frame[p].num_unsatisfied_grants
           = frame[p].interference_quota * frame[p].fair_share[2]

\* --------------------------------------------------------------------------
\* calculateApIapRef (iap.py 503-529)
\* --------------------------------------------------------------------------
\* all orders in which a dictionary may hand out the keys S
Orders(S) ==
  {s \in [1..Cardinality(S) -> S] : \A i, j \in DOMAIN s : i # j => s[i] # s[j]}

\* (q_p - a_p) / num_sas + asas with the parentheses misplaced
AllowedOfSum(q_p, num_sas, a_p, asas) ==
  <<(q_p - a_p + asas) \div num_sas, (q_p - a_p + asas) % num_sas>>

\* lines 526-527: ((q_p - a_p) / num_sas) + asas.  The float result is kept
\* exactly, as <<w, r>> standing for w + r / num_sas with 0 <= r < num_sas
Allowed(q_p, num_sas, a_p, asas) ==
  <<((q_p - a_p) \div num_sas) + asas, (q_p - a_p) % num_sas>>

\* lines 523-527: the body of the inner loop for the key <<latitude, longitude>>
ApIapRefAt(ap_iap_ref, q_p, num_sas, asas_info, a_p_info, latitude, longitude) ==
  LET a_p_list == a_p_info[latitude][longitude]
      values == [index \in 1..Len(a_p_list) |->
                   Allowed(q_p, num_sas, a_p_list[index],
                           asas_info[latitude][longitude][index])]
      \* line 523: ap_iap_ref[latitude] = {}; line 524: ...[longitude] = []
      fresh == (longitude :> values)
  IN  IF latitude \in DOMAIN ap_iap_ref
        THEN [ap_iap_ref EXCEPT ![latitude] = fresh]
        ELSE ap_iap_ref @@ (latitude :> fresh)

\* lines 521-527: the two loops, items being the keys in the order in which
\* .items() hands them out
RECURSIVE ApIapRefLoop(_, _, _, _, _, _)
ApIapRefLoop(ap_iap_ref, q_p, num_sas, asas_info, a_p_info, items) ==
  IF items = <<>> THEN ap_iap_ref
  ELSE ApIapRefLoop(
         ApIapRefAt(ap_iap_ref, q_p, num_sas, asas_info, a_p_info,
                    Head(items)[1], Head(items)[2]),
         q_p, num_sas, asas_info, a_p_info, Tail(items))

\* lines 516-529
calculateApIapRef(q_p, num_sas, asas_info, a_p_info, items) ==
  ApIapRefLoop(<<>>, q_p, num_sas, asas_info, a_p_info, items)

\* --------------------------------------------------------------------------
\* SpecComb: one direct call calculateApIapRef(q_p, num_sas) on stores that
\* hold, for every key, one pair (local total, global total) per channel
\* --------------------------------------------------------------------------
CombTotals == {<<10, 60>>, <<0, 130>>, <<60, 60>>}
CombThresholds == {100, 50}

\* the two stores that hold the pairs entries[k] at every key k of ks
StoreOf(ks, entries, which) ==
  [la \in {k[1] : k \in ks} |->
     [lo \in {k[2] : k \in {x \in ks : x[1] = la}} |->
        [i \in DOMAIN entries[<<la, lo>>] |-> entries[<<la, lo>>][i][which]]]]

InitComb ==
  /\ \E ks \in SUBSET Points :
       \E entries \in [ks -> SeqsOf(CombTotals, 1, MaxEntries)] :
         /\ asas_interference = StoreOf(ks, entries, 1)
         /\ aggregate_interference = StoreOf(ks, entries, 2)
         /\ a_p_items \in Orders(ks)
  /\ frame = [p \in Procs |-> NoFrame]
  /\ drv = DirectFrame
  /\ pool = NoPool
  /\ result = <<>>
  /\ own = NothingWritten
  /\ testcase = NoTestcase

\* the call and its return
CallCalculateApIapRef ==
  /\ drv.pc = "direct"
  /\ \E q_p \in CombThresholds, num_sas \in 1..MaxSas :
       /\ result' = calculateApIapRef(q_p, num_sas, asas_interference,
                                      aggregate_interference, a_p_items)
       /\ drv' = [drv EXCEPT !.pc = "returned", !.combined = TRUE,
                             !.q_p = q_p, !.num_sas = num_sas]
  /\ UNCHANGED <<asas_interference, aggregate_interference, a_p_items, frame, pool, own, testcase>>

NextComb == CallCalculateApIapRef

SpecComb == InitComb /\ [][NextComb]_vars

\* C6: the map calculateApIapRef returns has an entry for every key of the
\* global-total store, also when longitudes share a latitude, and each list
\* is as long as the global-total list of its key.
C6_EveryKeyHasEntry ==
  drv.pc = "returned" =>
    /\ Keys(result) = Keys(aggregate_interference)
    /\ \A k \in Keys(result) :
         Len(result[k[1]][k[2]]) = Len(aggregate_interference[k[1]][k[2]])

\* C7: every value of the output equals
\* ((threshold - global_total[index]) / peer_group_size) + local_total[index]
\* of the same key and index: num_sas times the value is
\* (threshold - global) + num_sas * local.
C7_CombinationFormula ==
  drv.pc = "returned" =>
    \A k \in Keys(result) :
      \A index \in DOMAIN result[k[1]][k[2]] :
        LET v == result[k[1]][k[2]][index]
        IN  /\ v[2] \in 0..(drv.num_sas - 1)
            /\ drv.num_sas * v[1] + v[2] =
                 (drv.q_p - aggregate_interference[k[1]][k[2]][index])
                 + drv.num_sas * asas_interference[k[1]][k[2]][index]

\* threshold 100, peer group 2, global 60, local 10 give 30
C7_Witness ==
  /\ drv.pc = "returned" /\ drv.q_p = 100 /\ drv.num_sas = 2
  /\ \E k \in Keys(result) :
       \E index \in DOMAIN result[k[1]][k[2]] :
         /\ aggregate_interference[k[1]][k[2]][index] = 60
         /\ asas_interference[k[1]][k[2]][index] = 10
         /\ result[k[1]][k[2]][index] = <<30, 0>>


\* --------------------------------------------------------------------------
\* the entity drivers (iap.py 207-500)
\*
\* drv is the frame of the driver the main process is in:
\*   pc "idle"      no driver has been called yet
\*      "alloc"     inside the inline call of iapPointConstraint
\*      "pool"      stores reset, the Pool not yet created
\*      "map"       inside pool.map
\*      "combine"   about to call calculateApIapRef
\*      "returned"  the driver has returned `result`
\*   applies        FALSE on the path that skips the IAP (no PAL record
\*                  matches, FSS blocking not applied)
\*   called_iap, quota, channels   history: whether iapPointConstraint was
\*                  called or dispatched, and the threshold and the channel
\*                  list it was given
\*   combined, q_p, num_sas   whether calculateApIapRef was called, and the
\*                  arguments it was given
\*   inputs         history: the arguments of the driver, as <<name, grants,
\*                  protection points, the entity's or the PAL records' data>>
\*   prev           history: <<>>, or when the driver the main process called
\*                  just before was the same one with the same inputs, what
\*                  that run returned and its num_sas
\* --------------------------------------------------------------------------
ESC_LOW_FREQ_HZ == 0
ESC_HIGH_FREQ_HZ == 52

\* lines 218-219, 273-274, 332-333, 397-398, 451: iap_threshold_<entity>, dBm
IapThreshold(name) ==
  CASE name = "ESC" -> Db(Q_ESC_DBM_PER_RBW) + IapBwPerMhzDb
    [] name = "GWPZ_AREA" -> Db(Q_GWPZ_DBM_PER_RBW) + IapBwPerAreaRbwDb
    [] name = "PPA_AREA" -> Db(Q_PPA_DBM_PER_RBW) + IapBwPerAreaRbwDb
    [] name = "FSS_CO_CHANNEL" -> Db(Q_FSS_CO_CHANNEL_DBM_PER_RBW) + IapBwPerMhzDb
    [] name = "FSS_BLOCKING" -> Db(Q_FSS_BLOCKING_DBM_PER_RBW)

\* lines 58-62: the pre-IAP margin of the entity, dB
MarginDb(name) ==
  CASE name = "ESC" -> Db(MG_ESC_DB)
    [] name = "GWPZ_AREA" -> Db(MG_GWPZ_DB)
    [] name = "PPA_AREA" -> Db(MG_PPA_DB)
    [] name = "FSS_CO_CHANNEL" -> Db(MG_FSS_CO_CHANNEL_DB)
    [] name = "FSS_BLOCKING" -> Db(MG_FSS_BLOCKING_DB)

\* lines 220, 275, 334, 399-400, 452-453: iap_margin_<entity>, mW
IapMargin(name) == DbToLinear(IapThreshold(name) - MarginDb(name))

\* lines 259, 316, 384, 437, 499: the threshold handed to calculateApIapRef
CombineThreshold(d) ==
  IF d.name \in {"GWPZ_AREA", "PPA_AREA"} THEN d.iap_threshold ELSE d.iap_margin

\* the driver's frame once its constants are computed
DriverFrame(name, pc, applies, called_iap, channels, inputs) ==
  [pc |-> pc,
   name |-> name,
   iap_threshold |-> IapThreshold(name),
   iap_margin |-> IapMargin(name),
   applies |-> applies,
   called_iap |-> called_iap,
   quota |-> IF called_iap THEN IapMargin(name) ELSE 0,
   channels |-> channels,
   task |-> <<>>,
   combined |-> FALSE,
   q_p |-> 0,
   num_sas |-> 0,
   inputs |-> inputs,
   prev |-> IF drv.pc = "returned" /\ drv.inputs = inputs
              THEN <<[result |-> result, num_sas |-> drv.num_sas]>>
              ELSE <<>>]

\* a driver may be called when none is running
CanCall == drv.pc \in {"idle", "returned"}

\* the grants of the activity dumps: contributions at max EIRP 4 dB and 2 dB
\* below the entity's margin, in 3650-3660 MHz; the second one is of another
\* SAS and outside the neighbourhood of the point <<1, 2>>
DriverGrants(name) ==
  {GrantAt(IapThreshold(name) - MarginDb(name) + Db(-4), TRUE, 40, 44, Points),
   GrantAt(IapThreshold(name) - MarginDb(name) + Db(-2), FALSE, 40, 44,
           Points \ {<<1, 2>>})}

GrantLists(name) == SeqsOf(DriverGrants(name), 0, MaxGrants)

\* utils.GridPolygon(protected_entity, 2): the grid of an area entity
Grids == {<<<<1, 1>>>>, <<<<1, 1>>, <<1, 2>>>>}

\* asas_interference.__init__(); aggregate_interference.__init__()
ResetStores ==
  /\ asas_interference' = EmptyStore
  /\ aggregate_interference' = EmptyStore
  /\ a_p_items' = <<>>

\* lines 218-257
performIapForEsc ==
  /\ CanCall
  /\ \E grant_objects \in GrantLists("ESC") :
       /\ frame' = [frame EXCEPT ![Main] =
            CallFrame(<<1, 1>>, getProtectedChannels(ESC_LOW_FREQ_HZ, ESC_HIGH_FREQ_HZ),
                      ESC_LOW_FREQ_HZ, ESC_HIGH_FREQ_HZ, grant_objects,
                      IapMargin("ESC"), "ESC")]
       /\ drv' = DriverFrame("ESC", "alloc", TRUE, TRUE,
                             getProtectedChannels(ESC_LOW_FREQ_HZ, ESC_HIGH_FREQ_HZ),
                             <<"ESC", grant_objects, <<<<1, 1>>>>, <<>>>>)
  /\ ResetStores
  /\ own' = NothingWritten
  /\ result' = <<>>
  /\ UNCHANGED <<pool, testcase>>

\* lines 397-435
performIapForFssCochannel ==
  /\ CanCall
  /\ \E grant_objects \in GrantLists("FSS_CO_CHANNEL"), fss_low_freq \in {40} :
       /\ frame' = [frame EXCEPT ![Main] =
            CallFrame(<<1, 1>>, getProtectedChannels(fss_low_freq, CBRS_HIGH_FREQ_HZ),
                      fss_low_freq, CBRS_HIGH_FREQ_HZ, grant_objects,
                      IapMargin("FSS_CO_CHANNEL"), "FSS_CO_CHANNEL")]
       /\ drv' = DriverFrame("FSS_CO_CHANNEL", "alloc", TRUE, TRUE,
                             getProtectedChannels(fss_low_freq, CBRS_HIGH_FREQ_HZ),
                             <<"FSS_CO_CHANNEL", grant_objects, <<<<1, 1>>>>,
                               <<fss_low_freq>>>>)
  /\ ResetStores
  /\ own' = NothingWritten
  /\ result' = <<>>
  /\ UNCHANGED <<pool, testcase>>

\* lines 482-484: the FSS blocking protection is not applied
FssBlockingNotApplied(fss_low_freq, fss_high_freq, fss_ttc_flag) ==
  /\ fss_low_freq >= FSS_TTC_LOW_FREQ_HZ
  /\ fss_high_freq <= FSS_TTC_HIGH_FREQ_HZ
  /\ fss_ttc_flag = FALSE

\* the FSS entities: <<lowFrequency, highFrequency, ttc>>
FssBlockingEntities == {<<60, 260, FALSE>>, <<60, 260, TRUE>>, <<44, 260, FALSE>>}

\* performIapForFssBlocking with the 5 MHz channels of the other drivers
performIapForFssBlockingChannelized ==
  /\ CanCall
  /\ \E grant_objects \in GrantLists("FSS_BLOCKING"), e \in FssBlockingEntities :
       /\ ~FssBlockingNotApplied(e[1], e[2], e[3])
       /\ frame' = [frame EXCEPT ![Main] =
            CallFrame(<<1, 1>>, getProtectedChannels(CBRS_LOW_FREQ_HZ, e[1]),
                      CBRS_LOW_FREQ_HZ, e[1], grant_objects,
                      IapMargin("FSS_BLOCKING"), "FSS_BLOCKING")]
       /\ drv' = DriverFrame("FSS_BLOCKING", "alloc", TRUE, TRUE,
                             getProtectedChannels(CBRS_LOW_FREQ_HZ, e[1]),
                             <<"FSS_BLOCKING", grant_objects, <<<<1, 1>>>>, <<e>>>>)
  /\ ResetStores
  /\ own' = NothingWritten
  /\ result' = <<>>
  /\ UNCHANGED <<pool, testcase>>

\* lines 451-497, the branch of line 487
performIapForFssBlocking ==
  /\ CanCall
  /\ \E grant_objects \in GrantLists("FSS_BLOCKING"), e \in FssBlockingEntities :
       /\ ~FssBlockingNotApplied(e[1], e[2], e[3])
       /\ frame' = [frame EXCEPT ![Main] =
            CallFrame(<<1, 1>>, <<<<CBRS_LOW_FREQ_HZ, e[1]>>>>,
                      CBRS_LOW_FREQ_HZ, e[1], grant_objects,
                      IapMargin("FSS_BLOCKING"), "FSS_BLOCKING")]
       /\ drv' = DriverFrame("FSS_BLOCKING", "alloc", TRUE, TRUE,
                             <<<<CBRS_LOW_FREQ_HZ, e[1]>>>>,
                             <<"FSS_BLOCKING", grant_objects, <<<<1, 1>>>>, <<e>>>>)
  /\ ResetStores
  /\ own' = NothingWritten
  /\ result' = <<>>
  /\ UNCHANGED <<pool, testcase>>

\* lines 451-486, the branch of line 485
performIapForFssBlockingNotApplied ==
  /\ CanCall
  /\ \E e \in FssBlockingEntities :
       /\ FssBlockingNotApplied(e[1], e[2], e[3])
       /\ drv' = DriverFrame("FSS_BLOCKING", "combine", FALSE, FALSE, <<>>,
                             <<"FSS_BLOCKING", <<>>, <<<<1, 1>>>>, <<e>>>>)
  /\ own' = NothingWritten
  /\ result' = <<>>
  /\ UNCHANGED <<asas_interference, aggregate_interference, a_p_items, frame, pool, testcase>>

\* lines 304-309, 371-376: the task of the pool, iapPointConstraint with all
\* arguments but the point
Task(name, channels, low_freq, high_freq, grant_objects) ==
  [channels |-> channels, low_freq |-> low_freq, high_freq |-> high_freq,
   grant_objects |-> grant_objects, threshold |-> IapMargin(name),
   protection_ent_type |-> name]

\* lines 273-298
performIapForGwpz ==
  /\ CanCall
  /\ \E grant_objects \in GrantLists("GWPZ_AREA"), protection_points \in Grids,
        n \in 1..MaxChannels :
       LET gwpz_low_freq == 40
           gwpz_high_freq == 40 + 2 * n
       IN  drv' = [DriverFrame("GWPZ_AREA", "pool", TRUE, TRUE,
                     getProtectedChannels(gwpz_low_freq, gwpz_high_freq),
                     <<"GWPZ_AREA", grant_objects, protection_points,
                       <<gwpz_low_freq, gwpz_high_freq>>>>) EXCEPT
                     !.task = <<protection_points,
                                Task("GWPZ_AREA",
                                     getProtectedChannels(gwpz_low_freq, gwpz_high_freq),
                                     gwpz_low_freq, gwpz_high_freq, grant_objects)>>]
  /\ ResetStores
  /\ own' = NothingWritten
  /\ result' = <<>>
  /\ UNCHANGED <<frame, pool, testcase>>

\* the PAL records: <<palId, lowFrequency, highFrequency>>; the PPA's first
\* PAL identifier is 1
PalRecords == {<<>>, <<<<2, 40, 42>>>>, <<<<1, 40, 42>>>>, <<<<2, 40, 42>>, <<1, 40, 44>>>>}

\* lines 352-353: the first record of the PPA's first PAL identifier, 0 if
\* there is none
RECURSIVE FirstPal(_, _, _)
FirstPal(pal_records, pal_id, i) ==
  IF i > Len(pal_records) THEN 0
  ELSE IF pal_records[i][1] = pal_id THEN i
  ELSE FirstPal(pal_records, pal_id, i + 1)

\* lines 332-363, a PAL record matches
performIapForPpa ==
  /\ CanCall
  /\ \E grant_objects \in GrantLists("PPA_AREA"), protection_points \in Grids,
        pal_records \in PalRecords :
       LET i == FirstPal(pal_records, 1, 1)
       IN  /\ i # 0
           /\ drv' = [DriverFrame("PPA_AREA", "pool", TRUE, TRUE,
                        getProtectedChannels(pal_records[i][2],
                                             pal_records[i][3]),
                        <<"PPA_AREA", grant_objects, protection_points,
                          pal_records>>) EXCEPT
                        !.task = <<protection_points,
                                   Task("PPA_AREA",
                                        getProtectedChannels(pal_records[i][2],
                                                             pal_records[i][3]),
                                        pal_records[i][2], pal_records[i][3],
                                        grant_objects)>>]
  /\ ResetStores
  /\ own' = NothingWritten
  /\ result' = <<>>
  /\ UNCHANGED <<frame, pool, testcase>>

\* lines 332-353 and 383, no PAL record matches
performIapForPpaUnmatched ==
  /\ CanCall
  /\ \E pal_records \in PalRecords :
       /\ FirstPal(pal_records, 1, 1) = 0
       /\ drv' = DriverFrame("PPA_AREA", "combine", FALSE, FALSE, <<>>,
                             <<"PPA_AREA", <<>>, <<>>, pal_records>>)
  /\ own' = NothingWritten
  /\ result' = <<>>
  /\ UNCHANGED <<asas_interference, aggregate_interference, a_p_items, frame, pool, testcase>>


\* --------------------------------------------------------------------------
\* the worker pool (lines 301-314, 369-381).  The workers are processes; the
\* two stores are shared with them (AggregateInterferenceOutputFormat is part
\* of reference_models.interference: one store for all point evaluations,
\* with safe concurrent insertion of keys), everything else of a call is the
\* worker's own.
\* --------------------------------------------------------------------------
Min(a, b) == IF a < b THEN a ELSE b

\* lines 301-311, 369-378: Pool(processes=min(cpu_count(), len(points))) and
\* the tasks of pool.map handed to it
poolOpen ==
  /\ drv.pc = "pool"
  /\ LET procs == 1..Min(CpuCount, Len(drv.task[1]))
     IN  pool' = [state |-> "open", procs |-> procs, tasks |-> drv.task[1]]
  /\ drv' = [drv EXCEPT !.pc = "map"]
  /\ UNCHANGED <<asas_interference, aggregate_interference, a_p_items, frame, result, own, testcase>>

\* an idle worker takes the next point and calls iapPoint(point)
poolTake(w) ==
  /\ pool.state = "open"
  /\ w \in pool.procs
  /\ frame[w].pc = "none"
  /\ pool.tasks # <<>>
  /\ LET t == drv.task[2]
     IN  frame' = [frame EXCEPT ![w] =
           CallFrame(Head(pool.tasks), t.channels, t.low_freq, t.high_freq,
                     t.grant_objects, t.threshold, t.protection_ent_type)]
  /\ pool' = [pool EXCEPT !.tasks = Tail(@)]
  /\ UNCHANGED <<asas_interference, aggregate_interference, a_p_items, drv, result, own, testcase>>

\* the call of a worker has returned (None)
poolTaskDone(w) ==
  /\ w \in pool.procs
  /\ frame[w].pc = "return"
  /\ frame' = [frame EXCEPT ![w] = NoFrame]
  /\ UNCHANGED <<asas_interference, aggregate_interference, a_p_items, drv, pool, result, own, testcase>>

\* poolJoin without the barrier: the driver goes on while tasks are pending
\* or running
poolJoinNoBarrier ==
  /\ drv.pc = "map"
  /\ pool' = NoPool
  /\ drv' = [drv EXCEPT !.pc = "combine"]
  /\ UNCHANGED <<asas_interference, aggregate_interference, a_p_items, frame, result, own, testcase>>

\* lines 311-314, 378-381: pool.map returns when every task is done;
\* pool.close(), pool.join(): the worker processes are gone
poolJoin ==
  /\ drv.pc = "map"
  /\ pool.tasks = <<>>
  /\ \A w \in pool.procs : frame[w].pc = "none"
  /\ pool' = NoPool
  /\ drv' = [drv EXCEPT !.pc = "combine"]
  /\ UNCHANGED <<asas_interference, aggregate_interference, a_p_items, frame, result, own, testcase>>

\* the inline call of lines 254, 432, 494 has returned
allocReturns ==
  /\ drv.pc = "alloc"
  /\ frame[Main].pc = "return"
  /\ frame' = [frame EXCEPT ![Main] = NoFrame]
  /\ drv' = [drv EXCEPT !.pc = "combine"]
  /\ UNCHANGED <<asas_interference, aggregate_interference, a_p_items, pool, result, own, testcase>>

\* lines 259-260, 316-317, 384-385, 437-438, 499-500: the driver calls
\* calculateApIapRef and returns what it returns; num_sas is the number of
\* activity dumps of the other SASs plus one
driverCombine ==
  /\ drv.pc = "combine"
  /\ \E num_sas \in 1..MaxSas :
       /\ result' = calculateApIapRef(CombineThreshold(drv), num_sas,
                      asas_interference, aggregate_interference, a_p_items)
       /\ drv' = [drv EXCEPT !.pc = "returned", !.combined = TRUE,
                             !.q_p = CombineThreshold(drv),
                             !.num_sas = num_sas, !.task = <<>>]
  /\ UNCHANGED <<asas_interference, aggregate_interference, a_p_items, frame, pool, own, testcase>>

\* --------------------------------------------------------------------------
\* Spec: the main process calls the drivers one after the other
\* --------------------------------------------------------------------------
Init ==
  /\ asas_interference = EmptyStore
  /\ aggregate_interference = EmptyStore
  /\ a_p_items = <<>>
  /\ frame = [p \in Procs |-> NoFrame]
  /\ drv = IdleFrame
  /\ pool = NoPool
  /\ result = <<>>
  /\ own = NothingWritten
  /\ testcase = NoTestcase

Next ==
  \/ performIapForEsc
  \/ performIapForGwpz
  \/ performIapForPpa
  \/ performIapForPpaUnmatched
  \/ performIapForFssCochannel
  \/ performIapForFssBlocking
  \/ performIapForFssBlockingNotApplied
  \/ poolOpen
  \/ \E w \in Workers : poolTake(w)
  \/ \E w \in Workers : poolTaskDone(w)
  \/ poolJoin
  \/ \E p \in Procs : iapPointConstraint(p)
  \/ allocReturns
  \/ driverCombine

Spec == Init /\ [][Next]_vars


\* --------------------------------------------------------------------------
\* the drivers (Spec)
\* --------------------------------------------------------------------------
\* C8: in every driver the threshold handed to calculateApIapRef is the
\* entity's linear threshold, the value handed to iapPointConstraint as the
\* interference quota.
C8_CombineGetsLinearThreshold ==
  /\ \A p \in Procs :
       (drv.pc \in {"alloc", "map"} /\ frame[p].pc # "none")
         => frame[p].threshold = drv.iap_margin
  /\ (drv.combined /\ drv.called_iap) =>
       /\ drv.q_p = drv.iap_margin
       /\ drv.q_p = drv.quota

\* C9: whenever a driver calls calculateApIapRef, both stores hold only what
\* iapPointConstraint has written during the same driver invocation.
C9_StoresHoldOnlyOwnEntries ==
  drv.pc = "combine" =>
    /\ asas_interference = own.asas
    /\ aggregate_interference = own.aggr

\* C10: when no PAL record matches the PPA's first PAL identifier, the
\* driver makes no allocator call, does not call calculateApIapRef and
\* produces no result.
C10_UnmatchedPpaProducesNothing ==
  (drv.name = "PPA_AREA" /\ ~drv.applies) =>
    /\ ~drv.called_iap
    /\ \A p \in Procs : frame[p].pc = "none"
    /\ ~drv.combined
    /\ result = <<>>


\* --------------------------------------------------------------------------
\* SpecFair: the direct calls of SpecAlloc and the drivers of Spec, with the
\* scheduling of the processes: the main process and every worker process
\* keep executing while they have a step to take; a behaviour holds one
\* direct call or one call of a driver (whether a driver is called is up to
\* the caller)
\* --------------------------------------------------------------------------
MainSteps ==
  \/ iapPointConstraint(Main)
  \/ poolOpen
  \/ poolJoin
  \/ allocReturns
  \/ driverCombine

WorkerSteps(w) ==
  \/ poolTake(w)
  \/ iapPointConstraint(w)
  \/ poolTaskDone(w)

\* Next with the main process calling one driver
NextFair ==
  \/ drv.pc = "idle" /\ performIapForEsc
  \/ drv.pc = "idle" /\ performIapForGwpz
  \/ drv.pc = "idle" /\ performIapForPpa
  \/ drv.pc = "idle" /\ performIapForPpaUnmatched
  \/ drv.pc = "idle" /\ performIapForFssCochannel
  \/ drv.pc = "idle" /\ performIapForFssBlocking
  \/ drv.pc = "idle" /\ performIapForFssBlockingNotApplied
  \/ MainSteps
  \/ \E w \in Workers : WorkerSteps(w)

SpecFair ==
  /\ Init \/ InitAlloc
  /\ [][NextFair]_vars
  /\ WF_vars(MainSteps)
  /\ \A w \in Workers : WF_vars(WorkerSteps(w))

\* every grant handed to the call of process p has a contribution that falls
\* below any positive value
AllVanishing(p) ==
  \A i \in DOMAIN frame[p].grant_objects : Vanishing(frame[p].grant_objects[i])

\* C5: termination.  With a positive quota and contributions that strictly
\* decrease with the EIRP and fall below any positive value, the convergence
\* loop of every channel exits, every call of iapPointConstraint returns,
\* and so every driver returns, with no loop of any process left running.
C5_Termination ==
  /\ (InLoop(Main) /\ AllVanishing(Main)) ~> LoopExit(Main)
  /\ (frame[Main].pc = "entry" /\ AllVanishing(Main)) ~> (frame[Main].pc = "return")
  /\ (drv.pc \in {"alloc", "pool", "map", "combine"}) ~> (drv.pc = "returned")
  /\ [](drv.pc = "returned" => \A p \in Procs : frame[p].pc \in {"none", "return"})

\* a loop exits after some grant's EIRP had to be reduced
C5_Witness ==
  \E p \in Procs :
    /\ LoopExit(p)
    /\ \E i \in GrantIndexes(p) :
         frame[p].grants_eirp[i] < frame[p].neighborhood_grants[i].max_eirp


\* --------------------------------------------------------------------------
\* the paths of the drivers (Spec)
\* --------------------------------------------------------------------------
\* C11: when performIapForFssBlocking is given an entity whose range lies
\* inside the telemetry/command band with the flag that exempts it, the
\* driver makes no allocator call, writes nothing to the stores and returns
\* without calling calculateApIapRef.
C11_ExemptFssBlockingSkipsCombination ==
  (drv.name = "FSS_BLOCKING" /\ ~drv.applies) =>
    /\ ~drv.called_iap
    /\ \A p \in Procs : frame[p].pc = "none"
    /\ own = NothingWritten
    /\ ~drv.combined

\* the driver is one of the two grid drivers, on the path that runs the IAP
GridDriver == drv.name \in {"GWPZ_AREA", "PPA_AREA"} /\ drv.applies

\* the points of the grid of the running grid driver
GridPoints == {drv.task[1][i] : i \in DOMAIN drv.task[1]}

\* what an inline call of iapPointConstraint for the point would write
InlineCallTotals(point) ==
  LET t == drv.task[2]
  IN  InlineTotals(CallFrame(point, t.channels, t.low_freq, t.high_freq,
                             t.grant_objects, t.threshold, t.protection_ent_type),
                   <<>>)

\* C12: once the pool is joined, the stores calculateApIapRef reads in the
\* driver hold, for every grid point with an overlapping grant, exactly the
\* per-channel totals an inline call of iapPointConstraint for that point
\* would have written, and nothing else, whatever the interleaving of the
\* workers.
C12_ParallelEqualsSerial ==
  (GridDriver /\ drv.pc = "combine") =>
    /\ Keys(asas_interference) \subseteq GridPoints
    /\ Keys(aggregate_interference) \subseteq GridPoints
    /\ \A point \in GridPoints :
         LET totals == InlineCallTotals(point)
         IN  IF totals = <<>>
               THEN /\ point \notin Keys(asas_interference)
                    /\ point \notin Keys(aggregate_interference)
               ELSE /\ point \in Keys(asas_interference)
                    /\ point \in Keys(aggregate_interference)
                    /\ asas_interference[point[1]][point[2]] =
                         [i \in DOMAIN totals |-> totals[i][1]]
                    /\ aggregate_interference[point[1]][point[2]] =
                         [i \in DOMAIN totals |-> totals[i][2]]

\* two points with different totals, two channels each, both in the stores
C12_Witness ==
  /\ GridDriver /\ drv.pc = "combine"
  /\ Cardinality(Keys(aggregate_interference)) = 2
  /\ \E k1, k2 \in Keys(aggregate_interference) :
       /\ Len(aggregate_interference[k1[1]][k1[2]]) = 2
       /\ aggregate_interference[k1[1]][k1[2]] # aggregate_interference[k2[1]][k2[2]]

\* some worker process is inside a call of iapPointConstraint
WorkerRunning == \E w \in Workers : frame[w].pc # "none"

AlignedAt(k) ==
  IF k \in Keys(aggregate_interference)
    THEN /\ k \in Keys(asas_interference)
         /\ Len(asas_interference[k[1]][k[2]]) = Len(aggregate_interference[k[1]][k[2]])
    ELSE k \notin Keys(asas_interference)

\* the two stores have the same keys and lists of the same lengths
Aligned ==
  /\ Keys(asas_interference) = Keys(aggregate_interference)
  /\ \A k \in Keys(aggregate_interference) : AlignedAt(k)

\* C14: key alignment.  Whenever no call is between its two store writes,
\* in particular when calculateApIapRef is about to run, the local-total
\* store and the global-total store have the same (latitude, longitude)
\* keys with lists of equal length; and a call between two channel
\* iterations finds its own point aligned whatever the other workers do.
C14_KeyAlignment ==
  /\ (\A p \in Procs : frame[p].pc # "write") => Aligned
  /\ drv.pc = "combine" => Aligned
  /\ \A p \in Procs : frame[p].pc = "channel" => AlignedAt(frame[p].protection_point)

\* calculateApIapRef is about to read two-channel lists that differ in value
C14_Witness ==
  /\ drv.pc = "combine"
  /\ \E k \in Keys(aggregate_interference) :
       /\ Len(asas_interference[k[1]][k[2]]) = 2
       /\ asas_interference[k[1]][k[2]] # aggregate_interference[k[1]][k[2]]
  /\ \E k \in Keys(aggregate_interference) :
       asas_interference[k[1]][k[2]] = aggregate_interference[k[1]][k[2]]

\* C15: for every key of a driver's result the list has exactly one entry
\* per channel of the channel list given to iapPointConstraint, and entry i
\* is the value of channel i of that list.
C15_OneEntryPerChannel ==
  (drv.pc = "returned" /\ drv.called_iap) =>
    \A k \in Keys(result) :
      /\ Len(result[k[1]][k[2]]) = Len(drv.channels)
      /\ \A i \in DOMAIN result[k[1]][k[2]] : own.ch[k[1]][k[2]][i] = i

\* the indexes of the channels of the call that some grant of the
\* neighbourhood overlaps, in the order of the channel list
OverlappedChannels(f) ==
  SelectSeq([i \in 1..Len(f.channels) |-> i],
            LAMBDA i : findOverlappingGrants(f.grants_inside,
                         ConstraintChannel(f.protection_ent_type, f.channels[i],
                                           f.low_freq, f.high_freq)) # <<>>)

\* C16: an empty neighbourhood is not an error.  A call for a point without
\* grants in its neighbourhood returns without writing to either store and
\* the point is absent from the driver's result; a channel no grant overlaps
\* gets no write; the loop is entered, and the fair share computed, only
\* with at least one grant.
C16_EmptyNeighbourhoodSkipped ==
  /\ \A p \in Procs :
       LET f == frame[p]
           point == f.protection_point
       IN  /\ f.pc \in {"while", "for", "write"} =>
                (Len(f.neighborhood_grants) > 0 /\ f.fair_share[2] # 0)
           /\ (f.pc \notin {"none", "entry"} /\ f.grants_inside = <<>>) =>
                /\ f.pc = "return"
                /\ point \notin Keys(asas_interference)
                /\ point \notin Keys(aggregate_interference)
           /\ f.pc = "return" =>
                IF OverlappedChannels(f) = <<>>
                  THEN point \notin Keys(own.ch)
                  ELSE point \in Keys(own.ch)
                       /\ own.ch[point[1]][point[2]] = OverlappedChannels(f)
  /\ (drv.pc = "returned" /\ drv.called_iap) => Keys(result) \subseteq Keys(own.aggr)

\* a grid of two points of which one has an empty neighbourhood: the pool is
\* joined and only the other point is in the stores
C16_Witness ==
  /\ GridDriver /\ drv.pc = "combine"
  /\ Len(drv.task[1]) = 2
  /\ Len(drv.task[2].grant_objects) > 0
  /\ Keys(aggregate_interference) = {<<1, 1>>}
  /\ Keys(asas_interference) = {<<1, 1>>}

\* C17: idempotence of reset.  A driver called twice in a row with the same
\* inputs returns the same map both times, whatever was called before the
\* first of the two.
C17_SameInputsSameResult ==
  (drv.pc = "returned" /\ drv.prev # <<>> /\ drv.num_sas = drv.prev[1].num_sas)
    => result = drv.prev[1].result

\* --------------------------------------------------------------------------
\* the loop with an interference model that does not converge (SpecFair)
\* --------------------------------------------------------------------------
\* a grant of the current channel of process p is never reported below the
\* quota of the channel, so never below a fair share
NeverFits(p) ==
  \E i \in GrantIndexes(p) :
    LET grant == frame[p].neighborhood_grants[i]
    IN  ~Vanishing(grant) /\ DbToLinear(grant.floor) >= frame[p].quota_initial

\* C18: when some grant's contribution never falls below its fair share
\* however far its EIRP is reduced, the call of iapPointConstraint ends in
\* an error handed to its caller: it neither loops forever nor returns.
C18_NonConvergenceIsFatal ==
  (InLoop(Main) /\ NeverFits(Main)) ~> (frame[Main].pc = "error")

\* --------------------------------------------------------------------------
\* the candidate EIRPs (SpecAlloc)
\* --------------------------------------------------------------------------
\* what a step of process p does to its candidate EIRPs
EirpStep(p) ==
  LET f == frame[p]
      g == frame[p]'
  IN  /\ (f.pc = "channel" /\ g.pc = "while") =>
           \A i \in 1..Len(g.neighborhood_grants) :
             g.grants_eirp[i] = g.neighborhood_grants[i].max_eirp
      /\ (f.pc \in {"while", "for"} /\ g.pc \in {"while", "for"}) =>
           \A i \in 1..Len(f.neighborhood_grants) :
             /\ g.grants_eirp[i] <= f.grants_eirp[i]
             /\ g.grants_eirp[i] # f.grants_eirp[i] =>
                  /\ g.grants_eirp[i] = f.grants_eirp[i] - Db(1)
                  /\ f.pc = "for" /\ f.index = i
                  /\ ~LessThan(Interference(f, i), f.fair_share)
                  /\ f.sat_count[i] = 0

\* C19: monotonic EIRP reduction.  Within the evaluation of a point and
\* channel every candidate EIRP starts at the grant's max EIRP, never
\* rises, drops by exactly 1 dB and only at the grant's own probe of a
\* sweep, only when its contribution is not below the fair share, and not
\* at all once the grant has been declared satisfied.
C19_MonotonicEirp == [][\A p \in Procs : EirpStep(p)]_vars

\* --------------------------------------------------------------------------
\* the two totals of a point and channel (SpecAlloc)
\* --------------------------------------------------------------------------
\* the sum of the contributions, each counted once, of the grants of the
\* local authority that were declared satisfied
SumOfManagedSatisfied(p) ==
  SumSeq([i \in GrantIndexes(p) |->
            IF /\ frame[p].neighborhood_grants[i].is_managed_grant
               /\ frame[p].sat_count[i] > 0
              THEN Interference(frame[p], i)
              ELSE 0])

\* the two totals written for a point and channel never have the local one
\* above the global one, agree when every grant is managed, and the local
\* one is 0 when none is
LocalWithinGlobal(p) ==
  LET local == LastWritten(asas_interference, p)
      global == LastWritten(aggregate_interference, p)
      managed == {i \in GrantIndexes(p) :
                    frame[p].neighborhood_grants[i].is_managed_grant}
  IN  /\ local <= global
      /\ managed = GrantIndexes(p) => local = global
      /\ managed = {} => local = 0

\* C20: for every point and channel the local-authority total written is
\* the sum of the contributions of exactly the satisfied grants of the local
\* authority, so it is never above the global total, equals it when every
\* overlapping grant is locally managed, and is 0 when none is.
C20_LocalTotal ==
  \A p \in Procs :
    (frame[p].pc = "channel" /\ frame[p].wrote) =>
      /\ LastWritten(asas_interference, p) = SumOfManagedSatisfied(p)
      /\ LocalWithinGlobal(p)

\* --------------------------------------------------------------------------
\* the channels of one call (SpecAlloc)
\* --------------------------------------------------------------------------
\* the frame at the head of the while loop of a call made for the channel
\* f.ch alone
AloneFrame(f) ==
  StartChannel(Enter(CallFrame(f.protection_point, <<f.channels[f.ch]>>, f.low_freq,
                               f.high_freq, f.grant_objects, f.threshold,
                               f.protection_ent_type)))

\* the loop variables of lines 117-164
LoopVariables(f) ==
  <<f.channel, f.interference_quota, f.neighborhood_grants, f.num_unsatisfied_grants,
    f.fair_share, f.grants_eirp, f.grant_initialize_flag, f.aggr_interference,
    f.a_sas_p_interference>>

\* what a step of process p does to the channels: the loop of a channel
\* starts as if the call were made for that channel alone, and the arguments
\* of the call stay as they were passed in
ChannelStep(p) ==
  LET f == frame[p]
      g == frame[p]'
  IN  /\ (f.pc = "channel" /\ g.pc = "while") =>
           /\ LoopVariables(g) = LoopVariables(AloneFrame(f))
           /\ g.interference_quota =
                InterferenceQuota(f.protection_ent_type, f.threshold, f.channels[f.ch])
           /\ g.num_unsatisfied_grants = Len(g.neighborhood_grants)
           /\ \A i \in 1..Len(g.neighborhood_grants) :
                /\ g.grants_eirp[i] = g.neighborhood_grants[i].max_eirp
                /\ g.grant_initialize_flag[i] = FALSE
      /\ (f.pc \notin {"none", "return"} /\ g.pc # "none") =>
           /\ g.grant_objects = f.grant_objects
           /\ g.channels = f.channels
           /\ g.threshold = f.threshold

\* C21: the channel evaluations of one call of iapPointConstraint are
\* independent.  At the start of every channel's loop the quota is derived
\* afresh from the threshold and every overlapping grant is unsatisfied at
\* its max EIRP, whatever earlier channels reduced or consumed, and the
\* grant records and the channel list passed in are left unchanged.
C21_ChannelsIndependent == [][\A p \in Procs : ChannelStep(p)]_vars

\* the loop of the second channel starts after the first channel consumed
\* quota and left a total in the stores
C21_Witness ==
  /\ frame[Main].pc = "while"
  /\ frame[Main].ch = 2
  /\ frame[Main].wrote = FALSE
  /\ frame[Main].interference_quota = frame[Main].quota_initial
  /\ \A i \in GrantIndexes(Main) : frame[Main].sat_count[i] = 0
  /\ Len(frame[Main].neighborhood_grants) = 2
  /\ <<1, 1>> \in Keys(aggregate_interference)
  /\ Len(aggregate_interference[1][1]) = 1
  /\ LastWritten(aggregate_interference, Main) > 0

\* --------------------------------------------------------------------------
\* the first sweep (SpecAlloc)
\* --------------------------------------------------------------------------
\* the frame is inside the first sweep of its channel: the grants before
\* f.index have been probed once, the others not yet
FirstSweep(f) ==
  /\ f.pc = "for"
  /\ \A j \in 1..Len(f.neighborhood_grants) :
       IF j < f.index
         THEN \/ f.sat_count[j] = 1
                 /\ f.grants_eirp[j] = f.neighborhood_grants[j].max_eirp
              \/ f.sat_count[j] = 0
                 /\ f.grants_eirp[j] = f.neighborhood_grants[j].max_eirp - Db(1)
         ELSE /\ f.sat_count[j] = 0
              /\ f.grants_eirp[j] = f.neighborhood_grants[j].max_eirp

\* the probe of the first sweep is of a grant whose contribution at max EIRP
\* is below quota / n
BelowInitialShare(f) ==
  /\ FirstSweep(f)
  /\ LessThan(Interference(f, f.index),
              Quotient(f.quota_initial, Len(f.neighborhood_grants)))

\* what the probe of such a grant does, when process p takes the step
FirstSweepStep(p) ==
  LET f == frame[p]
      g == frame[p]'
      interference == Interference(f, f.index)
  IN  (BelowInitialShare(f) /\ g # f) =>
        /\ g.sat_count[f.index] = 1
        /\ g.grants_eirp[f.index] = f.neighborhood_grants[f.index].max_eirp
        /\ g.aggr_interference = f.aggr_interference + interference
        /\ Len(f.neighborhood_grants) = 1 =>
             /\ g.pc = "while"
             /\ g.num_unsatisfied_grants = 0
             /\ g.aggr_interference = interference
             /\ g.interference_quota = f.quota_initial - interference

\* C22: a grant whose contribution at max EIRP is below the initial fair
\* share quota / n is declared satisfied in the first sweep, at its max EIRP
\* and without a reduction; with a single grant below the quota (40 against
\* 50) the loop ends after that one sweep with the global total equal to the
\* contribution and the remaining quota equal to quota - contribution (10).
C22_FirstSweepSatisfies == [][\A p \in Procs : FirstSweepStep(p)]_vars

\* the single-grant scenario, in units of a tenth: 400 against 500 leaves 100
C22_Witness ==
  /\ LoopExit(Main)
  /\ Len(frame[Main].neighborhood_grants) = 1
  /\ frame[Main].sat_count = <<1>>
  /\ frame[Main].grants_eirp[1] = frame[Main].neighborhood_grants[1].max_eirp
  /\ frame[Main].quota_initial = 500
  /\ frame[Main].aggr_interference = 400
  /\ frame[Main].interference_quota = 100

\* --------------------------------------------------------------------------
\* the constraint of FSS blocking (Spec)
\* --------------------------------------------------------------------------
\* performIapForFssBlocking is running, or has returned, on an entity that
\* is not exempt
FssBlockingApplied == drv.name = "FSS_BLOCKING" /\ drv.applies

\* the entity of the driver: <<lowFrequency, highFrequency, ttc>>
FssEntity == drv.inputs[4][1]

\* the call evaluates a single constraint, from low to high and with the
\* threshold as its quota, and writes at most one entry, one once it has
\* returned with a grant overlapping the constraint
OneConstraint(low, high) ==
  LET f == frame[Main]
      reached == findOverlappingGrants(
                   findGrantsInsideNeighborhood(drv.inputs[2], <<1, 1>>), <<low, high>>)
  IN  /\ f.pc # "none" =>
           /\ Len(f.channels) = 1
           /\ f.threshold = IapMargin("FSS_BLOCKING")
      /\ f.pc \in {"while", "for", "write"} =>
           /\ f.channel = <<low, high>>
           /\ f.quota_initial = f.threshold
      /\ \A k \in Keys(own.aggr) : k = <<1, 1>> /\ Len(own.aggr[1][1]) = 1
      /\ (f.pc = "return" \/ drv.pc \in {"combine", "returned"}) =>
           (Keys(own.aggr) = {<<1, 1>>} <=> reached # <<>>)

\* C23: for a satellite-blocking entity that is not exempt the allocator
\* evaluates exactly one constraint, spanning the entity's declared
\* frequency range from its declared low to its declared high frequency,
\* with the full threshold as quota.
C23_ConstraintSpansDeclaredRange ==
  FssBlockingApplied => OneConstraint(FssEntity[1], FssEntity[2])

\* C23, amended: for a satellite-blocking entity that is not exempt the
\* allocator evaluates one constraint (none when no grant is in reach),
\* running from the low edge of the CBRS band to the entity's declared low
\* frequency, with the full threshold as quota.
C23_ConstraintBelowDeclaredRange ==
  FssBlockingApplied => OneConstraint(CBRS_LOW_FREQ_HZ, FssEntity[1])

\* the one constraint of an entity of 3660-4200 MHz has been evaluated
C23_Witness ==
  /\ FssBlockingApplied
  /\ FssEntity = <<44, 260, FALSE>>
  /\ frame[Main].pc = "return"
  /\ frame[Main].channel = <<CBRS_LOW_FREQ_HZ, 44>>
  /\ Keys(own.aggr) = {<<1, 1>>}
  /\ Len(aggregate_interference[1][1]) = 1

\* --------------------------------------------------------------------------
\* the quota of a channel (SpecAlloc)
\* --------------------------------------------------------------------------
\* the distance of the centre of a channel from the centre of the reference
\* channel, in half dB at 1 dB per MHz
RollOffDistance(channel) ==
  5 * ((channel[1] + channel[2]) \div 2 - ESC_CH21_CF_HZ)

\* the quota the loop of the frame's channel started from follows the rule
QuotaRule(f) ==
  LET channel == f.channels[f.ch]
  IN  IF f.protection_ent_type = "ESC" /\ channel[1] >= ESC_ROLLOFF_FREQ_HZ
        THEN LinearToDb(f.quota_initial) =
               LinearToDb(f.threshold) - (5 + RollOffDistance(channel))
        ELSE f.quota_initial = f.threshold

\* C24: the quota of a channel.  For an ESC entity and a channel above the
\* cutoff the quota in dB is the threshold in dB minus (2.5 + the distance
\* in MHz of the channel centre from the centre of the reference channel),
\* 12.5 dB lower for a centre 10 MHz above it; for an ESC channel below the
\* cutoff and for every other entity type the quota is the threshold.
C24_QuotaRule ==
  \A p \in Procs :
    frame[p].pc \in {"while", "for", "write"} => QuotaRule(frame[p])

\* the loop of an ESC channel centred 10 MHz above the reference channel
\* runs on a quota 12.5 dB below the threshold
C24_Witness ==
  /\ InLoop(Main)
  /\ frame[Main].protection_ent_type = "ESC"
  /\ frame[Main].channel = <<44, 46>>
  /\ RollOffDistance(frame[Main].channel) = Db(10)
  /\ LinearToDb(frame[Main].quota_initial) = LinearToDb(frame[Main].threshold) - 25
  /\ frame[Main].quota_initial < frame[Main].threshold

\* --------------------------------------------------------------------------
\* WINNF_FT_S_SSS_testcase.py: the tests SSS_10, SSS_15, SSS_17 and SSS_18
\* of SasToSasSecurityTestcase.  The SAS under test, and with it every call
\* the tests make to it, is the environment: a call returns, raises an
\* AssertionError or raises another exception.  The positions of a test:
\*   "reset"      at self.SasReset()
\*   "inject"     at self._sas_admin.InjectPeerSas(...)
\*   "setup"      at lines 272-285 of SSS_18
\*   "succeed"    at self.assertTlsHandshakeSucceed(...) of SSS_15
\*   "handshake"  at self.assertTlsHandshakeFailure(...)
\*   "operation"  at TriggerFullActivityDumpAndWaitUntilComplete / DownloadFile
\*   "fail"       at self.fail(...)
\*   "except"     in the handler `except AssertionError as e`
\*   "done"       the test method has ended, verdict says how
\* handshake and operation are history fields: what the two calls did.
\* --------------------------------------------------------------------------
SssTests == {"SSS_10", "SSS_15", "SSS_17", "SSS_18"}

\* the HTTP status the handler of the test compares with (lines 142, 210,
\* 241, 298)
ExpectedStatus(name) == IF name \in {"SSS_10", "SSS_15"} THEN 403 ELSE 401

\* the HTTP statuses a request to the SAS under test ends with
HttpStatuses == {200, 401, 403, 404, 500}

\* AssertionError(status): what a request that ends with status raises
StatusError(status) ==
  [type |-> "AssertionError", is_status |-> TRUE, status |-> status, message |-> ""]

\* AssertionError(message): what self.fail(message) and the assert methods
\* of unittest raise
MessageError(message) ==
  [type |-> "AssertionError", is_status |-> FALSE, status |-> 0, message |-> message]

\* any other exception (a socket or SSL error, a KeyError)
OtherError == [type |-> "Exception", is_status |-> FALSE, status |-> 0, message |-> ""]

\* what a call to the SAS under test can raise
Raised ==
  {StatusError(status) : status \in HttpStatuses \ {200}}
  \cup {MessageError("assertion of the harness"), OtherError}

\* unittest: a test method that raises an AssertionError has failed, one
\* that raises anything else is in error
Propagate(t, e) ==
  [t EXCEPT !.pc = "done",
            !.e = e,
            !.verdict = IF e.type = "AssertionError" THEN "fail" ELSE "error"]

\* the test method returns
Passed(t) == [t EXCEPT !.pc = "done", !.verdict = "pass"]

\* unittest assertEqual(first, 403): e.args[0] is a status or a message
ArgEquals(e, status) == e.is_status /\ e.status = status

\* the other variables of the module
others ==
  <<asas_interference, aggregate_interference, a_p_items, frame, drv, pool, result, own>>

\* lines 127, 197, 229, 265: self.SasReset()
sssSasReset ==
  /\ testcase.pc = "reset"
  /\ \/ testcase' = [testcase EXCEPT !.pc = IF testcase.name = "SSS_17"
                                             THEN "handshake" ELSE "inject"]
     \/ \E e \in Raised : testcase' = Propagate(testcase, e)
  /\ UNCHANGED others

\* lines 130-132, 200-202, 268-270: InjectPeerSas
sssInjectPeerSas ==
  /\ testcase.pc = "inject"
  /\ \/ testcase' = [testcase EXCEPT !.pc = CASE testcase.name = "SSS_15" -> "succeed"
                                              [] testcase.name = "SSS_18" -> "setup"
                                              [] OTHER -> "handshake"]
     \/ \E e \in Raised : testcase' = Propagate(testcase, e)
  /\ UNCHANGED others

\* lines 272-285 of SSS_18: a device is registered and granted, the dump is
\* triggered with the valid pair and its first file's url is taken
sssSetup ==
  /\ testcase.pc = "setup"
  /\ \/ testcase' = [testcase EXCEPT !.pc = "handshake"]
     \/ \E e \in Raised : testcase' = Propagate(testcase, e)
  /\ UNCHANGED others

\* line 203 of SSS_15: self.assertTlsHandshakeSucceed(...)
sssAssertTlsHandshakeSucceed ==
  /\ testcase.pc = "succeed"
  /\ \/ testcase' = [testcase EXCEPT !.pc = "operation", !.handshake = "as required"]
     \/ \E e \in Raised :
          testcase' = [Propagate(testcase, e) EXCEPT !.handshake = "not as required"]
  /\ UNCHANGED others

\* lines 133-136, 232-234, 288-291: self.assertTlsHandshakeFailure(...) in
\* a try with `except AssertionError`
sssAssertTlsHandshakeFailure ==
  /\ testcase.pc = "handshake"
  /\ \/ testcase' = [Passed(testcase) EXCEPT !.handshake = "as required"]
     \/ \E e \in Raised :
          testcase' = IF e.type = "AssertionError"
                        THEN [testcase EXCEPT !.pc = "operation", !.e = e,
                                              !.handshake = "not as required"]
                        ELSE [Propagate(testcase, e) EXCEPT !.handshake = "not as required"]
  /\ UNCHANGED others

\* sssOperation whose AssertionError is not caught
sssOperationUncaught ==
  /\ testcase.pc = "operation"
  /\ \/ testcase' = [Passed(testcase) EXCEPT !.operation = "returned"]
     \/ \E e \in Raised :
          testcase' = [Propagate(testcase, e) EXCEPT !.operation = "raised"]
  /\ UNCHANGED others

\* lines 138, 206, 237, 293: TriggerFullActivityDumpAndWaitUntilComplete, or
\* DownloadFile in SSS_18, in a try with `except AssertionError as e`
sssOperation ==
  /\ testcase.pc = "operation"
  /\ \/ testcase' = [testcase EXCEPT !.pc = "fail", !.operation = "returned"]
     \/ \E e \in Raised :
          testcase' = IF e.type = "AssertionError"
                        THEN [testcase EXCEPT !.pc = "except", !.e = e,
                                              !.operation = "raised"]
                        ELSE [Propagate(testcase, e) EXCEPT !.operation = "raised"]
  /\ UNCHANGED others

\* lines 139, 207, 238, 295: self.fail(...), inside the same try
sssFail ==
  /\ testcase.pc = "fail"
  /\ testcase' = [testcase EXCEPT !.pc = "except",
                                  !.e = MessageError("expected to fail")]
  /\ UNCHANGED others

\* lines 140-142, 208-210, 239-241, 296-298: assertEqual(e.args[0], status)
sssExcept ==
  /\ testcase.pc = "except"
  /\ testcase' = IF ArgEquals(testcase.e, ExpectedStatus(testcase.name))
                   THEN Passed(testcase)
                   ELSE Propagate(testcase, MessageError("not equal"))
  /\ UNCHANGED others

\* the test runner starts one of the four tests
InitSss ==
  /\ asas_interference = EmptyStore
  /\ aggregate_interference = EmptyStore
  /\ a_p_items = <<>>
  /\ frame = [p \in Procs |-> NoFrame]
  /\ drv = IdleFrame
  /\ pool = NoPool
  /\ result = <<>>
  /\ own = NothingWritten
  /\ \E name \in SssTests : testcase = [NoTestcase EXCEPT !.name = name, !.pc = "reset"]

NextSss ==
  \/ sssSasReset
  \/ sssInjectPeerSas
  \/ sssSetup
  \/ sssAssertTlsHandshakeSucceed
  \/ sssAssertTlsHandshakeFailure
  \/ sssOperation
  \/ sssFail
  \/ sssExcept

SpecSss == InitSss /\ [][NextSss]_vars

\* the handshake went as the test requires, or the dump or download raised
\* with the status the test expects
RejectedAsExpected ==
  \/ testcase.handshake = "as required"
  \/ /\ testcase.operation = "raised"
     /\ ArgEquals(testcase.e, ExpectedStatus(testcase.name))

\* C25: in SSS_10, SSS_15, SSS_17 and SSS_18 the test never passes when the
\* Full Activity Dump or the file download it expects to be rejected
\* succeeds: it passes only if the TLS handshake behaves as required or the
\* operation raises with the expected HTTP status, 403 for SSS_10 and
\* SSS_15, 401 for SSS_17 and SSS_18.
C25_NoPassOnSuccessfulDump ==
  testcase.verdict = "pass" =>
    /\ testcase.operation # "returned"
    /\ RejectedAsExpected
    /\ testcase.name = "SSS_15" =>
         /\ testcase.operation = "raised"
         /\ testcase.e = StatusError(403)

\* SSS_10 has passed on a dump that was refused with 403 after a handshake
\* that went through
C25_Witness ==
  /\ testcase.name = "SSS_10"
  /\ testcase.verdict = "pass"
  /\ testcase.handshake = "not as required"
  /\ testcase.operation = "raised"
  /\ testcase.e = StatusError(403)

\* --------------------------------------------------------------------------
\* the course of the fair share (SpecAlloc)
\* --------------------------------------------------------------------------
\* q < r for two quotients with non-zero denominators
QuotientLess(q, r) ==
  IF (q[2] > 0) = (r[2] > 0)
    THEN q[1] * r[2] < r[1] * q[2]
    ELSE q[1] * r[2] > r[1] * q[2]

\* what a step of process p inside the loop of a channel does to the fair
\* share: it does not lower it, a satisfaction that leaves grants unsatisfied
\* raises it, and a grant that was declared satisfied is below it
FairShareStep(p) ==
  LET f == frame[p]
      g == frame[p]'
  IN  (f.pc = "for" /\ g.pc \in {"while", "for"} /\ g # f) =>
        /\ ~QuotientLess(g.fair_share, f.fair_share)
        /\ (g.sat_count # f.sat_count /\ g.num_unsatisfied_grants # 0) =>
             QuotientLess(f.fair_share, g.fair_share)
        /\ \A i \in 1..Len(g.neighborhood_grants) :
             (f.sat_count[i] > 0 /\ g.grants_eirp[i] = f.grants_eirp[i]) =>
               LessThan(Interference(g, i), g.fair_share)

\* C26: within the evaluation of a point and channel the fair share never
\* decreases.  Each time a grant is declared satisfied while others remain
\* unsatisfied the recomputed fair share is strictly greater than the one
\* before, so a grant that once passed the test of the fair share would pass
\* it again at the same EIRP.
C26_FairShareNeverDecreases == [][\A p \in Procs : FairShareStep(p)]_vars

\* --------------------------------------------------------------------------
\* grants that are alike (SpecAlloc)
\* --------------------------------------------------------------------------
\* two grants of the channel have the same max EIRP and the same contribution
\* at every EIRP
Alike(f, i, j) ==
  /\ f.neighborhood_grants[i].max_eirp = f.neighborhood_grants[j].max_eirp
  /\ f.neighborhood_grants[i].loss = f.neighborhood_grants[j].loss
  /\ f.neighborhood_grants[i].floor = f.neighborhood_grants[j].floor

AllAlike(f) ==
  \A i, j \in 1..Len(f.neighborhood_grants) : Alike(f, i, j)

C28_UnusedBudgetNotNegative ==
  (drv.pc = "returned" /\ drv.name # "none") =>
    \A k \in Keys(result) :
      \A index \in DOMAIN result[k[1]][k[2]] :
        LET v == result[k[1]][k[2]][index]
            allowed == drv.num_sas * v[1] + v[2]
        IN  /\ drv.q_p - aggregate_interference[k[1]][k[2]][index] >= 0
            /\ allowed >= drv.num_sas * asas_interference[k[1]][k[2]][index]
            /\ allowed >= 0

=============================================================================
